---- MODULE Spec2Model ----
(***************************************************************************)
(* Model of the ROM patching core of open_agb_firm:                        *)
(*   source/arm11/buffer.c  (readBuffer, createBuffer, loadBuffer,         *)
(*                           freeBuffer)                                   *)
(*   source/arm11/patch.c   (patchIPS, read_vuint, patchUPS, applyPatch)   *)
(*                                                                         *)
(* Every readBuffer call of the engines is one step of the state machine.  *)
(* Numbers that can exceed 2^31 - 1 (u32 sizes, the uintmax_t accumulator  *)
(* of read_vuint and the UPS cursor) are kept as four 16-bit limbs, least  *)
(* significant first, so that they keep their C width.                     *)
(***************************************************************************)
EXTENDS Integers, Sequences, FiniteSets, TLC

(***************************************************************************)
(* Program constants.                                                      *)
(***************************************************************************)
MAX_BUFFER_SIZE == 512

MAX_ROM_SIZE == 33554432

LIMB == 256 * 256

(***************************************************************************)
(* Result codes.                                                            *)
(***************************************************************************)
RES_OK == "RES_OK"

RES_OUT_OF_MEM == "RES_OUT_OF_MEM"

RES_OUT_OF_RANGE == "RES_OUT_OF_RANGE"

RES_INVALID_PATCH == "RES_INVALID_PATCH"

RES_FR_DISK_ERR == "RES_FR_DISK_ERR"

(***************************************************************************)
(* Bytes.                                                                   *)
(***************************************************************************)
RECURSIVE BitXor(_, _, _)
BitXor(a, b, n) ==
    IF n = 0 THEN 0
    ELSE (((a % 2) + (b % 2)) % 2) + 2 * BitXor(a \div 2, b \div 2, n - 1)

\* romBytes[offset] ^= readByte on u8 operands
XorByte(a, b) == BitXor(a, b, 8)

RECURSIVE Pow2(_)
Pow2(k) == IF k = 0 THEN 1 ELSE 2 * Pow2(k - 1)

Min(a, b) == IF a <= b THEN a ELSE b

(***************************************************************************)
(* Wide unsigned integers: <<l0, l1, l2, l3>> stands for                    *)
(* l0 + 2^16 l1 + 2^32 l2 + 2^48 l3.  A u32 has l2 = l3 = 0.                *)
(***************************************************************************)
W(n) == <<n % LIMB, n \div LIMB, 0, 0>>

WZero == <<0, 0, 0, 0>>

\* addition modulo 2^64 (uintmax_t += ...)
WAdd(a, b) ==
    LET s1 == a[1] + b[1]
        s2 == a[2] + b[2] + (s1 \div LIMB)
        s3 == a[3] + b[3] + (s2 \div LIMB)
        s4 == a[4] + b[4] + (s3 \div LIMB)
    IN  <<s1 % LIMB, s2 % LIMB, s3 % LIMB, s4 % LIMB>>

\* subtraction modulo 2^64
WSub(a, b) ==
    LET d1 == a[1] - b[1]
        b1 == IF d1 < 0 THEN 1 ELSE 0
        d2 == a[2] - b[2] - b1
        b2 == IF d2 < 0 THEN 1 ELSE 0
        d3 == a[3] - b[3] - b2
        b3 == IF d3 < 0 THEN 1 ELSE 0
        d4 == a[4] - b[4] - b3
    IN  <<d1 % LIMB, d2 % LIMB, d3 % LIMB, d4 % LIMB>>

WLt(a, b) ==
    \/ a[4] < b[4]
    \/ a[4] = b[4] /\ a[3] < b[3]
    \/ a[4] = b[4] /\ a[3] = b[3] /\ a[2] < b[2]
    \/ a[4] = b[4] /\ a[3] = b[3] /\ a[2] = b[2] /\ a[1] < b[1]

WLe(a, b) == a = b \/ WLt(a, b)

\* the (u32) cast
WU32(a) == <<a[1], a[2], 0, 0>>

\* a wide value that fits a model integer
WFits(a) == a[4] = 0 /\ a[3] = 0 /\ a[2] < 32768

WInt(a) == a[1] + LIMB * a[2]

\* 2^k for 0 <= k <= 63
WPow2(k) ==
    IF k < 16 THEN <<Pow2(k), 0, 0, 0>>
    ELSE IF k < 32 THEN <<0, Pow2(k - 16), 0, 0>>
    ELSE IF k < 48 THEN <<0, 0, Pow2(k - 32), 0>>
    ELSE <<0, 0, 0, Pow2(k - 48)>>

\* (int)v << shift for v in 0..255, shift < 32, as the ARM build computes it:
\* the low 32 bits <<l0, l1>> of the mathematical product
Shl32(v, shift) ==
    IF shift < 16
    THEN <<(v * Pow2(shift)) % LIMB, ((v * Pow2(shift)) \div LIMB) % LIMB>>
    ELSE <<0, (v * Pow2(shift - 16)) % LIMB>>

\* `(octet ...) << shift` of read_vuint: the left operand is promoted to a
\* 32-bit int.  A product below 2^31 is exact.  A product of 2^31 or more
\* overflows the int (undefined in ISO C): the low 32 bits are kept and the
\* int is converted to uintmax_t, which a build does by sign extension
\* (ext = "sign") or, assuming no overflow, by zero extension (ext = "zero").
\* A shift count of 32 or more is undefined as well: a build shifts by
\* register, which gives 0 (wide = "zero"), or uses the count modulo 32
\* (wide = "mod32").  One build behaves one way throughout, so a choice made
\* once is kept in `build`; "any" is a choice not made yet.
ShlOverflows(v, shift) == ~(shift <= 23 \/ v < Pow2(31 - shift))

ShlValue(v, shift, b) ==
    IF shift >= 32 /\ b.wide = "zero" THEN WZero
    ELSE LET lo == Shl32(v, shift % 32)
         IN  IF ShlOverflows(v, shift % 32) /\ lo[2] >= 32768 /\ b.ext = "sign"
             THEN <<lo[1], lo[2], LIMB - 1, LIMB - 1>>
             ELSE <<lo[1], lo[2], 0, 0>>

\* the builds that `b` can still be, with every choice this shift needs made
ShlBuilds(v, shift, b) ==
    {[wide |-> w, ext |-> e] :
        w \in (IF shift >= 32 /\ b.wide = "any" THEN {"zero", "mod32"} ELSE {b.wide}),
        e \in (IF ShlOverflows(v, shift % 32) /\ b.ext = "any"
               THEN {"sign", "zero"} ELSE {b.ext})}

\* octet & 0x80, octet & 0x7f, octet | 0x80
HighBit(octet) == octet >= 128

Low7(octet) == octet % 128

Or80(octet) == IF octet >= 128 THEN octet ELSE octet + 128

\* the left operand of the shift in read_vuint's loop
VuintOperand(octet) == IF HighBit(octet) THEN Low7(octet) ELSE Or80(octet)

\* one iteration of read_vuint's loop on a successfully read octet: the
\* values [result, build] the iteration can leave
VuintAccumulate(result, shift, octet, b) ==
    {[result |-> WAdd(result, ShlValue(VuintOperand(octet), shift, nb)),
      build  |-> nb] : nb \in ShlBuilds(VuintOperand(octet), shift, b)}

\* nextPow2 of util.h: the least power of two that is >= v, for a u32 v >= 1
NextPow2(v) ==
    WPow2(CHOOSE k \in 0..32 :
            /\ WLe(v, WPow2(k))
            /\ \A j \in 0..(k - 1) : ~WLe(v, WPow2(j)))

(***************************************************************************)
(* The ROM image: the bytes at ROM_LOC + [0, MAX_ROM_SIZE), kept as the     *)
(* sequence of its constant runs <<start, byte>>: starts increase from 0,   *)
(* neighbouring runs hold different bytes, and a run ends where the next    *)
(* one starts (the last at MAX_ROM_SIZE).  Equal images have equal          *)
(* sequences.                                                               *)
(***************************************************************************)
RomAt(image, a) ==
    LET k == CHOOSE j \in 1..Len(image) :
                /\ image[j][1] <= a
                /\ (j = Len(image) \/ image[j + 1][1] > a)
    IN  image[k][2]

RomNormalize(s) ==
    LET F[k \in 0..Len(s)] ==
            IF k = 0 THEN <<>>
            ELSE IF k = 1 \/ s[k][2] # s[k - 1][2]
                 THEN Append(F[k - 1], s[k])
                 ELSE F[k - 1]
    IN  F[Len(s)]

\* store byte b at every index of [lo, hi), 0 <= lo, hi <= MAX_ROM_SIZE
\* (a one-element set binds a value that is then evaluated once)
RomStore(image, lo, hi, b) ==
    IF lo >= hi THEN image
    ELSE LET before == SelectSeq(image, LAMBDA r : r[1] < lo)
             after  == SelectSeq(image, LAMBDA r : r[1] > hi)
             tail   == IF hi < MAX_ROM_SIZE
                       THEN << <<hi, RomAt(image, hi)>> >>
                       ELSE <<>>
         IN  CHOOSE out \in
                 {RomNormalize(s) :
                     s \in {before \o << <<lo, b>> >> \o tail \o after}} : TRUE

\* memset(ROM_LOC + lo, b, len) restricted to the ROM region; lo, len wide
MemsetRom(image, lo, len, b) ==
    IF ~WLt(lo, W(MAX_ROM_SIZE)) THEN image
    ELSE LET end == WAdd(lo, len)
             hi  == IF WLt(end, W(MAX_ROM_SIZE)) THEN WInt(end) ELSE MAX_ROM_SIZE
         IN  CHOOSE out \in
                 {RomStore(image, at, to, b) : at \in {WInt(lo)}, to \in {hi}} :
                 TRUE

\* whether memset(ROM_LOC + lo, b, len) stores outside [0, MAX_ROM_SIZE)
MemsetOutside(lo, len) ==
    len # WZero /\ WLt(W(MAX_ROM_SIZE), WAdd(lo, len))

\* every byte of [lo, hi) equals b
RomRangeIs(image, lo, hi, b) ==
    \A k \in 1..Len(image) :
        LET start == image[k][1]
            end   == IF k = Len(image) THEN MAX_ROM_SIZE ELSE image[k + 1][1]
        IN  (start < hi /\ end > lo) => image[k][2] = b

(***************************************************************************)
(* The buffered reader (buffer.c).  A Buffer is the record                  *)
(* [buffer, bufferSize, bufferOffset, maxBufferSize]; buffer holds all      *)
(* maxBufferSize bytes of the calloc'ed array.                              *)
(***************************************************************************)
createBuffer(maxBufferSize) ==
    [buffer        |-> [k \in 1..maxBufferSize |-> 0],
     bufferSize    |-> 0,
     bufferOffset  |-> 0,
     maxBufferSize |-> maxBufferSize]

\* variant: the buffer is kept
freeBufferLeak(n) == n

\* freeBuffer(&buff), free(buff.buffer): n counts the free calls on the
\* engine's buffer
freeBuffer(n) == n + 1

\* variant: the fill takes all that is left of the file
FillSizeUncapped(b, f, pos) == Len(f) - pos

\* min(buff->maxBufferSize, fSize(fileHandle) - fTell(fileHandle))
FillSize(b, f, pos) == Min(b.maxBufferSize, Len(f) - pos)

\* fRead(fileHandle, buff->buffer, n, NULL): the array after a successful read
\* of n bytes at file position pos
fRead(b, f, pos, n) ==
    SubSeq(f, pos + 1, pos + n) \o SubSeq(b.buffer, n + 1, b.maxBufferSize)

\* variant: the fill leaves the file position where it was
loadBufferNoAdvance(b, f, pos, fail) ==
    LET n == FillSize(b, f, pos)
    IN  IF fail
        THEN [buff |-> [b EXCEPT !.bufferSize = n],
              fpos |-> pos,
              res  |-> RES_FR_DISK_ERR]
        ELSE [buff |-> [b EXCEPT !.bufferSize = n, !.buffer = fRead(b, f, pos, n)],
              fpos |-> pos,
              res  |-> RES_OK]

\* loadBuffer: [buff, fpos, res]; fail says whether fRead reports an error
loadBuffer(b, f, pos, fail) ==
    LET n == FillSize(b, f, pos)
    IN  IF fail
        THEN [buff |-> [b EXCEPT !.bufferSize = n],
              fpos |-> pos,
              res  |-> RES_FR_DISK_ERR]
        ELSE [buff |-> [b EXCEPT !.bufferSize = n, !.buffer = fRead(b, f, pos, n)],
              fpos |-> pos + n,
              res  |-> RES_OK]

\* whether this readBuffer call reaches the end of the window and refills
Refills(b) == b.bufferSize # 0 /\ b.bufferOffset + 1 >= b.bufferSize

\* variant: a call on an empty window leaves *res alone
readBufferSilent(b, f, pos, r, fail) ==
    IF b.bufferSize = 0
    THEN [byte |-> 0, buff |-> b, fpos |-> pos, res |-> r]
    ELSE IF Refills(b)
         THEN LET ld == loadBuffer(b, f, pos, fail)
              IN  [byte |-> b.buffer[b.bufferOffset + 1],
                   buff |-> [ld.buff EXCEPT !.bufferOffset = 0],
                   fpos |-> ld.fpos,
                   res  |-> ld.res]
         ELSE [byte |-> b.buffer[b.bufferOffset + 1],
               buff |-> [b EXCEPT !.bufferOffset = b.bufferOffset + 1],
               fpos |-> pos,
               res  |-> r]

\* readBuffer: [byte, buff, fpos, res]; r is *res on entry, which a call that
\* neither fails nor refills leaves alone
readBuffer(b, f, pos, r, fail) ==
    IF b.bufferSize = 0
    THEN [byte |-> 0, buff |-> b, fpos |-> pos, res |-> RES_OUT_OF_RANGE]
    ELSE IF Refills(b)
         THEN LET ld == loadBuffer(b, f, pos, fail)
              IN  [byte |-> b.buffer[b.bufferOffset + 1],
                   buff |-> [ld.buff EXCEPT !.bufferOffset = 0],
                   fpos |-> ld.fpos,
                   res  |-> ld.res]
         ELSE [byte |-> b.buffer[b.bufferOffset + 1],
               buff |-> [b EXCEPT !.bufferOffset = b.bufferOffset + 1],
               fpos |-> pos,
               res  |-> r]

\* the outcomes the file system can give one fRead: FALSE succeeds
ReadFaults(b) == IF Refills(b) THEN {FALSE, TRUE} ELSE {FALSE}

(***************************************************************************)
(* Patch files.  The wire formats: IPS is "PATCH", hunks, "EOF"; UPS is     *)
(* "UPS1", two varints, records, 12 reserved bytes.                         *)
(***************************************************************************)
MagicIPS == <<80, 65, 84, 67, 72>>

MagicEOF == <<69, 79, 70>>

MagicUPS == <<85, 80, 83, 49>>

\* x >> 7 and x & 0x7f on a wide value
WShr7(x) ==
    <<(x[1] \div 128) + (x[2] % 128) * 512,
      (x[2] \div 128) + (x[3] % 128) * 512,
      (x[3] \div 128) + (x[4] % 128) * 512,
      x[4] \div 128>>

\* the UPS encoder: 7 bits per octet, least significant group first, the high
\* bit set on the final octet only, each continuation biased by one
RECURSIVE EncodeVuint(_)
EncodeVuint(x) ==
    IF WShr7(x) = WZero
    THEN <<128 + (x[1] % 128)>>
    ELSE <<x[1] % 128>> \o EncodeVuint(WSub(WShr7(x), W(1)))

\* all sequences of at most n elements of S
RECURSIVE SeqsUpTo(_, _)
SeqsUpTo(S, n) ==
    IF n = 0 THEN {<<>>}
    ELSE LET shorter == SeqsUpTo(S, n - 1)
         IN  shorter \cup {Append(q, x) : q \in shorter, x \in S}

RECURSIVE Flatten(_)
Flatten(ss) == IF ss = <<>> THEN <<>> ELSE Head(ss) \o Flatten(Tail(ss))

Prefixes(f) == {SubSeq(f, 1, n) : n \in 0..Len(f)}

(***************************************************************************)
(* Bounds of the checked input space.                                       *)
(***************************************************************************)
\* IPS hunks per generated file
MaxHunks == 2

\* UPS records per generated file
MaxRecords == 2

\* length of the files generated over JunkBytes
MaxJunkLen == 4

\* IPS hunks: offset[3] length[2] data, or offset[3] 0 0 runLength[2] fill
IpsHunks ==
    { <<0, 0, 0,  0, 4,  84, 69, 83, 84>>,
      <<0, 0, 2,  0, 1,  128>>,
      <<0, 0, 1,  0, 0,  0, 3,  238>>,
      <<0, 0, 3,  0, 0,  0, 0,  17>>,
      <<128, 255, 1,  0, 2,  1, 0>>,
      <<255, 255, 255,  0, 0,  1, 2,  0>> }

IpsFilesOf(n) ==
    {MagicIPS \o Flatten(hs) \o MagicEOF : hs \in SeqsUpTo(IpsHunks, n)}

IpsFiles == IpsFilesOf(MaxHunks)

\* UPS records: deltaOffset varint, XOR bytes, 0x00
UpsRecords ==
    { EncodeVuint(W(0)) \o <<1, 0>>,
      EncodeVuint(W(1)) \o <<255, 16, 0>>,
      EncodeVuint(W(200)) \o <<7, 0>> }

\* <<baseRomSize, patchedRomSize>> of the generated headers
UpsSizes ==
    { <<W(4), W(4)>>, <<W(4), W(3)>>, <<W(2), W(3)>>, <<W(1), W(2)>>,
      <<W(4), W(300)>>, <<W(16), W(MAX_ROM_SIZE)>>,
      <<W(4), W(MAX_ROM_SIZE + 1)>>, <<W(4), <<1, 32768, 0, 0>> >> }

\* the 12 reserved bytes; they read as records when taken for record data
UpsTrailer == <<128, 1, 0, 128, 1, 0, 128, 1, 0, 128, 1, 0>>

UpsFilesOf(n) ==
    {MagicUPS \o EncodeVuint(sz[1]) \o EncodeVuint(sz[2]) \o Flatten(rs) \o UpsTrailer :
        sz \in UpsSizes, rs \in SeqsUpTo(UpsRecords, n)}

UpsFiles == UpsFilesOf(MaxRecords)

\* a record whose XOR run has n bytes
Run(b, n) == [k \in 1..n |-> b]

\* UPS files longer than one buffer: a short record, a record that crosses
\* the first refill, and a record after it
UpsLongFiles ==
    {MagicUPS \o EncodeVuint(W(1024)) \o EncodeVuint(W(1024))
        \o EncodeVuint(W(0)) \o <<1, 0>>
        \o EncodeVuint(W(0)) \o Run(3, n) \o <<0>>
        \o EncodeVuint(W(1)) \o <<5, 0>>
        \o UpsTrailer : n \in {MAX_BUFFER_SIZE - 20, MAX_BUFFER_SIZE}}

JunkBytes == {80, 85, 128}

JunkFiles ==
    SeqsUpTo(JunkBytes, MaxJunkLen)
    \cup { <<80, 65, 84, 67, 88>> \o MagicEOF,
           <<80, 65, 84, 67, 72>>,
           <<85, 80, 83, 50>> \o EncodeVuint(W(4)) \o EncodeVuint(W(4)) \o UpsTrailer,
           MagicUPS \o <<0, 0, 0, 0, 0, 0>>,
           MagicUPS \o <<0, 0, 0, 0, 0, 128, 128>> \o UpsTrailer }

\* the generated files, and every truncation of those with at most one hunk
\* or record
Files ==
    IpsFiles \cup UpsFiles \cup UpsLongFiles
    \cup UNION {Prefixes(f) : f \in IpsFilesOf(1) \cup UpsFilesOf(1) \cup JunkFiles}

\* the ROM the loader left at ROM_LOC: four distinct bytes, then 0xAA
InitRom == << <<0, 16>>, <<1, 32>>, <<2, 48>>, <<3, 64>>, <<4, 170>> >>

\* the logical ROM sizes the caller passes, all <= MAX_ROM_SIZE
InitRomSizes == {W(4), W(1024)}

(***************************************************************************)
(* State.                                                                   *)
(***************************************************************************)
VARIABLES
    file,            \* the bytes of the opened patch file
    fpos,            \* fTell(patchFile)
    buff,            \* the engine's Buffer
    allocs,          \* calloc calls that returned memory, per engine attempt
    frees,           \* free calls on the engine's buffer, per engine attempt
    rom,             \* the bytes at ROM_LOC
    romSize,         \* *romSize (u32)
    res,             \* the Result of the running function
    pc,              \* position in applyPatch / patchIPS / patchUPS
    i,               \* loop index of the running read loop
    temp,            \* patchIPS: char temp[5]
    miniBuffer,      \* patchIPS: char miniBuffer[3]
    offset,          \* patchIPS: u32 offset
    length,          \* patchIPS: u16 length
    magic,           \* patchUPS: u8 magic[4]
    baseRomSize,     \* patchUPS: u32
    patchedRomSize,  \* patchUPS: u32
    upsOffset,       \* patchUPS: uintmax_t offset
    result,          \* read_vuint: uintmax_t result
    shift,           \* read_vuint: uintmax_t shift
    vret,            \* which call of read_vuint is running
    build,           \* how the build treats the undefined shifts of read_vuint
    hist             \* what the run has done so far (not program state)

env == <<file, fpos>>

heap == <<allocs, frees>>

ipsLocals == <<temp, miniBuffer, offset, length>>

upsLocals == <<magic, baseRomSize, patchedRomSize, upsOffset>>

vuintLocals == <<result, shift, vret, build>>

vars == <<file, fpos, buff, allocs, frees, rom, romSize, res, pc, i, temp,
          miniBuffer, offset, length, magic, baseRomSize, patchedRomSize,
          upsOffset, result, shift, vret, build, hist>>

\* the reader's position in the file as the engine sees it: the file position
\* less the bytes read ahead
LogicalPos == fpos - (buff.bufferSize - buff.bufferOffset)

InitLocals ==
    /\ buff = createBuffer(0)
    /\ allocs = 0
    /\ frees = 0
    /\ res = RES_OK
    /\ i = 0
    /\ temp = <<0, 0, 0, 0, 0>>
    /\ miniBuffer = <<0, 0, 0>>
    /\ offset = 0
    /\ length = 0
    /\ magic = <<0, 0, 0, 0>>
    /\ baseRomSize = WZero
    /\ patchedRomSize = WZero
    /\ upsOffset = WZero
    /\ result = WZero
    /\ shift = 0
    /\ vret = "none"
    /\ build = [wide |-> "any", ext |-> "any"]

InitHist(sz) ==
    [rom0     |-> InitRom,     \* the ROM on entry
     romSize0 |-> sz,          \* *romSize on entry
     fault    |-> FALSE,       \* an fLseek, calloc or fRead has failed
     ipsRes   |-> "none",      \* what patchIPS returned
     upsRes   |-> "none",      \* what patchUPS returned
     upsSeek  |-> FALSE,       \* the rewind before patchUPS was done
     grown    |-> FALSE,       \* patchUPS ran its grow-fill
     outside  |-> FALSE,       \* a store landed outside [0, MAX_ROM_SIZE)
     nrec     |-> 0,           \* UPS records whose decoding has begun
     recAt    |-> 0,           \* LogicalPos where the last one began
     waited   |-> FALSE,       \* applyPatch entered its key-wait loop
     ipsFill  |-> FALSE,       \* loadBuffer of patchIPS succeeded
     input    |-> WZero,       \* the value encoded for a read_vuint run
     hunkAt   |-> 0,           \* LogicalPos where the last IPS hunk began
     start    |-> 0,           \* fTell when loadBuffer was called
     byte     |-> 0,           \* what the last readBuffer call returned
     pre      |-> [bufferSize |-> 0, bufferOffset |-> 0, fpos |-> 0]]
                               \* the reader and fTell before that call

\* applyPatch is entered with a freshly opened file
Init ==
    /\ file \in Files
    /\ fpos = 0
    /\ rom = InitRom
    /\ romSize \in InitRomSizes
    /\ pc = "applyPatch"
    /\ InitLocals
    /\ hist = InitHist(romSize)

NoteFault(h, fail) == [h EXCEPT !.fault = h.fault \/ fail]

(***************************************************************************)
(* applyPatch, first half, and patchIPS.                                    *)
(***************************************************************************)
\* res = fLseek(patchFile, 0); if (res != RES_OK) return res;
ApplyPatchSeek ==
    /\ pc = "applyPatch"
    /\ \E fail \in BOOLEAN :
        /\ hist' = NoteFault(hist, fail)
        /\ IF fail
           THEN /\ res' = RES_FR_DISK_ERR
                /\ pc' = "done"
                /\ fpos' = fpos
           ELSE /\ res' = RES_OK
                /\ pc' = "ips_create"
                /\ fpos' = 0
    /\ UNCHANGED <<file, buff, heap, rom, romSize, i, ipsLocals, upsLocals,
                   vuintLocals>>

\* Buffer buff = createBuffer(MAX_BUFFER_SIZE);
\* if (buff.buffer == NULL) return RES_OUT_OF_MEM;
IpsCreate ==
    /\ pc = "ips_create"
    /\ \E fail \in BOOLEAN :
        /\ IF fail
           THEN /\ res' = RES_OUT_OF_MEM
                /\ pc' = "ips_return"
                /\ hist' = [hist EXCEPT !.fault = TRUE, !.ipsRes = RES_OUT_OF_MEM]
                /\ UNCHANGED <<buff, allocs>>
           ELSE /\ res' = RES_OK
                /\ pc' = "ips_load"
                /\ buff' = createBuffer(MAX_BUFFER_SIZE)
                /\ allocs' = allocs + 1
                /\ hist' = hist
    /\ UNCHANGED <<env, frees, rom, romSize, i, ipsLocals, upsLocals, vuintLocals>>

\* res = loadBuffer(patchHandle, &buff); if (res == RES_OK) { ...
IpsLoad ==
    /\ pc = "ips_load"
    /\ \E fail \in BOOLEAN :
        LET ld == loadBuffer(buff, file, fpos, fail)
        IN  /\ buff' = ld.buff
            /\ fpos' = ld.fpos
            /\ res' = ld.res
            /\ hist' = [hist EXCEPT !.fault = @ \/ fail, !.ipsFill = ~fail]
            /\ pc' = IF ld.res = RES_OK THEN "ips_magic" ELSE "ips_free"
    /\ i' = 0
    /\ UNCHANGED <<file, heap, rom, romSize, ipsLocals, upsLocals, vuintLocals>>

\* for (u8 i=0; i<5; ++i) temp[i] = readBuffer(patchHandle, &buff, &res);
IpsMagic ==
    /\ pc = "ips_magic"
    /\ \E fail \in ReadFaults(buff) :
        LET rd == readBuffer(buff, file, fpos, res, fail)
        IN  /\ temp' = [temp EXCEPT ![i + 1] = rd.byte]
            /\ buff' = rd.buff
            /\ fpos' = rd.fpos
            /\ res' = rd.res
            /\ hist' = NoteFault(hist, fail)
    /\ i' = i + 1
    /\ pc' = IF i + 1 = 5 THEN "ips_check" ELSE "ips_magic"
    /\ UNCHANGED <<file, heap, rom, romSize, miniBuffer, offset, length,
                   upsLocals, vuintLocals>>

\* variant: an error of the magic reads survives the comparison
IpsMagicResKeepError(t, r) ==
    IF r # RES_OK THEN r ELSE IF t = MagicIPS THEN r ELSE RES_INVALID_PATCH

\* the result of the magic test of patchIPS: memcmp("PATCH", temp, 5) == 0
\* keeps res, a mismatch sets RES_INVALID_PATCH
IpsMagicRes(t, r) == IF t = MagicIPS THEN r ELSE RES_INVALID_PATCH

\* variant: the hunk loop is left whatever the result
IpsWhileNever(r) == "ips_free"

\* while (res == RES_OK) of patchIPS: where control goes at the loop head
IpsWhile(r) == IF r = RES_OK THEN "ips_offset" ELSE "ips_free"

\* if (memcmp("PATCH", temp, 5) == 0) isValidPatch = true;
\* else res = RES_INVALID_PATCH;   then if (isValidPatch) { while ...
IpsCheck ==
    /\ pc = "ips_check"
    /\ res' = IpsMagicRes(temp, res)
    /\ pc' = IF temp = MagicIPS THEN IpsWhile(res) ELSE "ips_free"
    /\ i' = 0
    /\ UNCHANGED <<env, buff, heap, rom, romSize, ipsLocals, upsLocals,
                   vuintLocals, hist>>

\* variant: the three offset bytes taken least significant first
IpsOffsetOfLittleEndian(m) == m[3] * 65536 + m[2] * 256 + m[1]

\* offset = (miniBuffer[0]<<16) + (miniBuffer[1]<<8) + (miniBuffer[2]);
\* char is unsigned on the ARM target
IpsOffsetOf(m) == m[1] * 65536 + m[2] * 256 + m[3]

\* length = (miniBuffer[0]<<8) + (miniBuffer[1]);   (also tempLen)
IpsLengthOf(m) == m[1] * 256 + m[2]

\* for (i<3) { miniBuffer[i] = readBuffer(...); if (res != RES_OK) break; }
\* if (res != RES_OK || memcmp("EOF", miniBuffer, 3)==0) break;
\* offset = ...
IpsReadOffset ==
    /\ pc = "ips_offset"
    /\ \E fail \in ReadFaults(buff) :
        LET rd == readBuffer(buff, file, fpos, res, fail)
            mb == [miniBuffer EXCEPT ![i + 1] = rd.byte]
        IN  /\ miniBuffer' = mb
            /\ buff' = rd.buff
            /\ fpos' = rd.fpos
            /\ res' = rd.res
            /\ hist' = [NoteFault(hist, fail) EXCEPT
                  !.hunkAt = IF i = 0 THEN LogicalPos ELSE @]
            /\ IF rd.res # RES_OK
               THEN pc' = "ips_free" /\ i' = i /\ offset' = offset
               ELSE IF i + 1 < 3
               THEN pc' = "ips_offset" /\ i' = i + 1 /\ offset' = offset
               ELSE IF mb = MagicEOF
               THEN pc' = "ips_free" /\ i' = i + 1 /\ offset' = offset
               ELSE pc' = "ips_length" /\ i' = 0 /\ offset' = IpsOffsetOf(mb)
    /\ UNCHANGED <<file, heap, rom, romSize, temp, length, upsLocals, vuintLocals>>

\* for (i<2) { miniBuffer[i] = readBuffer(...); if (res != RES_OK) break; }
\* if (res != RES_OK) break;  length = ...;  if (length == 0) ... else ...
IpsReadLength ==
    /\ pc = "ips_length"
    /\ \E fail \in ReadFaults(buff) :
        LET rd == readBuffer(buff, file, fpos, res, fail)
            mb == [miniBuffer EXCEPT ![i + 1] = rd.byte]
        IN  /\ miniBuffer' = mb
            /\ buff' = rd.buff
            /\ fpos' = rd.fpos
            /\ res' = rd.res
            /\ hist' = NoteFault(hist, fail)
            /\ IF rd.res # RES_OK
               THEN pc' = "ips_free" /\ i' = i /\ length' = length
               ELSE IF i + 1 < 2
               THEN pc' = "ips_length" /\ i' = i + 1 /\ length' = length
               ELSE /\ i' = 0
                    /\ length' = IpsLengthOf(mb)
                    /\ pc' = IF IpsLengthOf(mb) = 0 THEN "ips_rle" ELSE "ips_hunk"
    /\ UNCHANGED <<file, heap, rom, romSize, temp, offset, upsLocals, vuintLocals>>

\* RLE hunk: three reads, then
\* memset((void*)(ROM_LOC + offset), miniBuffer[2], tempLen*sizeof(char));
IpsReadRle ==
    /\ pc = "ips_rle"
    /\ \E fail \in ReadFaults(buff) :
        LET rd == readBuffer(buff, file, fpos, res, fail)
            mb == [miniBuffer EXCEPT ![i + 1] = rd.byte]
        IN  /\ miniBuffer' = mb
            /\ buff' = rd.buff
            /\ fpos' = rd.fpos
            /\ res' = rd.res
            /\ hist' = NoteFault(hist, fail)
            /\ IF rd.res # RES_OK
               THEN pc' = "ips_free" /\ i' = i /\ rom' = rom
               ELSE IF i + 1 < 3
               THEN pc' = "ips_rle" /\ i' = i + 1 /\ rom' = rom
               ELSE /\ i' = 0
                    /\ rom' = MemsetRom(rom, W(offset), W(IpsLengthOf(mb)), mb[3])
                    /\ pc' = IpsWhile(rd.res)
    /\ UNCHANGED <<file, heap, romSize, temp, offset, length, upsLocals, vuintLocals>>

\* for (u16 i=0; i<length; ++i) {
\*     *(char*)(ROM_LOC + offset + i) = readBuffer(patchHandle, &buff, &res);
\*     if (res != RES_OK) break; }
\* the byte readBuffer returns is stored before res is looked at
IpsHunkByte ==
    /\ pc = "ips_hunk"
    /\ \E fail \in ReadFaults(buff) :
        LET rd == readBuffer(buff, file, fpos, res, fail)
        IN  /\ rom' = MemsetRom(rom, W(offset + i), W(1), rd.byte)
            /\ buff' = rd.buff
            /\ fpos' = rd.fpos
            /\ res' = rd.res
            /\ hist' = NoteFault(hist, fail)
            /\ IF rd.res # RES_OK
               THEN pc' = "ips_free" /\ i' = i
               ELSE IF i + 1 < length
               THEN pc' = "ips_hunk" /\ i' = i + 1
               ELSE pc' = IpsWhile(rd.res) /\ i' = 0
    /\ UNCHANGED <<file, heap, romSize, temp, miniBuffer, offset, length,
                   upsLocals, vuintLocals>>

\* freeBuffer(&buff); return res;
IpsFree ==
    /\ pc = "ips_free"
    /\ frees' = freeBuffer(frees)
    /\ pc' = "ips_return"
    /\ hist' = [hist EXCEPT !.ipsRes = res]
    /\ UNCHANGED <<env, buff, allocs, rom, romSize, res, i, ipsLocals, upsLocals,
                   vuintLocals>>

\* variant: every result other than RES_OK falls through to the next engine
AfterEngineFallThrough(r, next) == IF r = RES_OK THEN "done" ELSE next

\* where applyPatch goes with an engine's result: RES_OK returns, an error
\* other than RES_INVALID_PATCH waits for Y+UP, RES_INVALID_PATCH goes on
AfterEngine(r, next) ==
    IF r = RES_OK THEN "done"
    ELSE IF r # RES_INVALID_PATCH THEN "wait"
    ELSE next

\* if ((res = patchIPS(patchFile)), res == RES_OK) return res;
\* else if (res != RES_INVALID_PATCH) { ... while(1) ... return res; }
\* res = fLseek(patchFile, 0); if (res != RES_OK) return res;
ApplyPatchAfterIps ==
    /\ pc = "ips_return"
    /\ IF AfterEngine(res, "seek") # "seek"
       THEN /\ pc' = AfterEngine(res, "seek")
            /\ UNCHANGED <<fpos, res>>
            /\ hist' = [hist EXCEPT
                            !.waited = @ \/ AfterEngine(res, "seek") = "wait"]
       ELSE \E fail \in BOOLEAN :
            IF fail
            THEN /\ res' = RES_FR_DISK_ERR
                 /\ pc' = "done"
                 /\ fpos' = fpos
                 /\ hist' = NoteFault(hist, TRUE)
            ELSE /\ res' = RES_OK
                 /\ pc' = "ups_create"
                 /\ fpos' = 0
                 /\ hist' = [hist EXCEPT !.upsSeek = TRUE]
    /\ UNCHANGED <<file, buff, heap, rom, romSize, i, ipsLocals, upsLocals,
                   vuintLocals>>

\* the loop of applyPatch after an engine error:
\* if (hidKeysHeld() == (KEY_Y | KEY_DUP) && hidKeysDown() != 0) break;
\* ... return res;
WaitKeyPressed ==
    /\ pc = "wait"
    /\ pc' = "done"
    /\ UNCHANGED <<env, buff, heap, rom, romSize, res, i, ipsLocals, upsLocals,
                   vuintLocals, hist>>

\* if (hidGetExtraKeys(0) & (KEY_POWER_HELD | KEY_POWER)) power_off();
WaitPowerOff ==
    /\ pc = "wait"
    /\ pc' = "power_off"
    /\ UNCHANGED <<env, buff, heap, rom, romSize, res, i, ipsLocals, upsLocals,
                   vuintLocals, hist>>

(***************************************************************************)
(* patchUPS, read_vuint, and the second half of applyPatch.                 *)
(* (applyPatch always passes a romSize pointer, so the NULL test of         *)
(* patchUPS never takes its branch.)                                        *)
(***************************************************************************)
\* Buffer buff = createBuffer(MAX_BUFFER_SIZE);
\* if (buff.buffer == NULL) return RES_OUT_OF_MEM;
UpsCreate ==
    /\ pc = "ups_create"
    /\ \E fail \in BOOLEAN :
        /\ IF fail
           THEN /\ res' = RES_OUT_OF_MEM
                /\ pc' = "ups_return"
                /\ hist' = [hist EXCEPT !.fault = TRUE, !.upsRes = RES_OUT_OF_MEM]
                /\ buff' = buff
                /\ allocs' = 0
           ELSE /\ res' = RES_OK
                /\ pc' = "ups_load"
                /\ buff' = createBuffer(MAX_BUFFER_SIZE)
                /\ allocs' = 1
                /\ hist' = hist
    /\ frees' = 0
    /\ UNCHANGED <<env, rom, romSize, i, ipsLocals, upsLocals, vuintLocals>>

\* res = loadBuffer(patchHandle, &buff);
\* if (res != RES_OK) { freeBuffer(&buff); return res; }
UpsLoad ==
    /\ pc = "ups_load"
    /\ \E fail \in BOOLEAN :
        LET ld == loadBuffer(buff, file, fpos, fail)
        IN  /\ buff' = ld.buff
            /\ fpos' = ld.fpos
            /\ res' = ld.res
            /\ IF ld.res = RES_OK
               THEN /\ pc' = "ups_magic"
                    /\ frees' = frees
                    /\ hist' = hist
               ELSE /\ pc' = "ups_return"
                    /\ frees' = freeBuffer(frees)
                    /\ hist' = [hist EXCEPT !.fault = TRUE, !.upsRes = ld.res]
    /\ i' = 0
    /\ magic' = <<0, 0, 0, 0>>
    /\ UNCHANGED <<file, allocs, rom, romSize, ipsLocals, baseRomSize,
                   patchedRomSize, upsOffset, vuintLocals>>

\* the result of the magic test of patchUPS, reached with res == RES_OK
UpsMagicRes(m, r) == IF m = MagicUPS THEN r ELSE RES_INVALID_PATCH

\* for (i<4) { magic[i] = readBuffer(...); if (res != RES_OK) break; }
\* if (res == RES_OK) { if (memcmp(&magic, "UPS1", 4) == 0) isValidPatch = true;
\*                      else res = RES_INVALID_PATCH; }
\* if (isValidPatch) { baseRomSize = (u32)read_vuint(...)
UpsMagic ==
    /\ pc = "ups_magic"
    /\ \E fail \in ReadFaults(buff) :
        LET rd == readBuffer(buff, file, fpos, res, fail)
            mg == [magic EXCEPT ![i + 1] = rd.byte]
        IN  /\ magic' = mg
            /\ buff' = rd.buff
            /\ fpos' = rd.fpos
            /\ hist' = NoteFault(hist, fail)
            /\ IF rd.res # RES_OK
               THEN res' = rd.res /\ pc' = "ups_free" /\ i' = i /\ vret' = vret
               ELSE IF i + 1 < 4
               THEN res' = rd.res /\ pc' = "ups_magic" /\ i' = i + 1 /\ vret' = vret
               ELSE /\ res' = UpsMagicRes(mg, rd.res)
                    /\ i' = i + 1
                    /\ IF mg = MagicUPS
                       THEN pc' = "read_vuint" /\ vret' = "baseRomSize"
                       ELSE pc' = "ups_free" /\ vret' = vret
    /\ result' = WZero
    /\ shift' = 0
    /\ UNCHANGED <<file, heap, rom, romSize, ipsLocals, baseRomSize,
                   patchedRomSize, upsOffset, build>>

\* one iteration of the loop of read_vuint:
\*   octet = readBuffer(patchFile, buff, res);
\*   if (*res != RES_OK) break;
\*   if (octet & 0x80) { result += (octet & 0x7f) << shift; break; }
\*   result += (octet | 0x80) << shift;  shift += 7;
ReadVuintStep ==
    /\ pc = "read_vuint"
    /\ \E fail \in ReadFaults(buff) :
        LET rd == readBuffer(buff, file, fpos, res, fail)
        IN  /\ buff' = rd.buff
            /\ fpos' = rd.fpos
            /\ res' = rd.res
            /\ hist' = NoteFault(hist, fail)
            /\ IF rd.res # RES_OK
               THEN /\ pc' = "vuint_return"
                    /\ UNCHANGED <<result, shift, build>>
               ELSE /\ \E acc \in VuintAccumulate(result, shift, rd.byte, build) :
                        result' = acc.result /\ build' = acc.build
                    /\ IF HighBit(rd.byte)
                       THEN pc' = "vuint_return" /\ shift' = shift
                       ELSE pc' = "read_vuint" /\ shift' = shift + 7
    /\ UNCHANGED <<file, heap, rom, romSize, i, ipsLocals, upsLocals, vret>>

\* u32 baseRomSize = (u32)read_vuint(patchHandle, &res, &buff);
\* if (res != RES_OK) { freeBuffer(&buff); return res; }
UpsGotBaseRomSize ==
    /\ pc = "vuint_return"
    /\ vret = "baseRomSize"
    /\ baseRomSize' = WU32(result)
    /\ IF res # RES_OK
       THEN /\ frees' = freeBuffer(frees)
            /\ pc' = "ups_return"
            /\ hist' = [hist EXCEPT !.upsRes = res]
            /\ UNCHANGED vuintLocals
       ELSE /\ frees' = frees
            /\ pc' = "read_vuint"
            /\ vret' = "patchedRomSize"
            /\ result' = WZero
            /\ shift' = 0
            /\ build' = build
            /\ hist' = hist
    /\ UNCHANGED <<env, buff, allocs, rom, romSize, res, i, ipsLocals, magic,
                   patchedRomSize, upsOffset>>

\* u32 patchedRomSize = (u32)read_vuint(patchHandle, &res, &buff);
\* if (res != RES_OK) { freeBuffer(&buff); return res; }
UpsGotPatchedRomSize ==
    /\ pc = "vuint_return"
    /\ vret = "patchedRomSize"
    /\ patchedRomSize' = WU32(result)
    /\ IF res # RES_OK
       THEN /\ frees' = freeBuffer(frees)
            /\ pc' = "ups_return"
            /\ hist' = [hist EXCEPT !.upsRes = res]
       ELSE /\ frees' = frees
            /\ pc' = "ups_grow"
            /\ hist' = hist
    /\ UNCHANGED <<env, buff, allocs, rom, romSize, res, i, ipsLocals, magic,
                   baseRomSize, upsOffset, vuintLocals>>

\* variant: the two memsets in the other order
UpsGrowFillZeroFirst(image, base, patched, newSize) ==
    MemsetRom(MemsetRom(image, base, WU32(WSub(patched, base)), 0),
              base, WU32(WSub(newSize, base)), 255)

\* memset((char*)(ROM_LOC + baseRomSize), 0xFFu, *romSize - baseRomSize);
\* memset((char*)(ROM_LOC + baseRomSize), 0x00u, patchedRomSize - baseRomSize);
\* the lengths are u32 differences
UpsGrowFill(image, base, patched, newSize) ==
    CHOOSE out \in
        {MemsetRom(filled, base, WU32(WSub(patched, base)), 0) :
            filled \in {MemsetRom(image, base, WU32(WSub(newSize, base)), 255)}} :
        TRUE

\* variant: an equal patched size grows too
UpsMustGrowOrEqual(base, patched) == WLe(base, patched)

\* if (patchedRomSize > baseRomSize)
UpsMustGrow(base, patched) == WLt(base, patched)

\* *romSize = nextPow2(patchedRomSize);  (a u32 store)
UpsNewSize(patched) == WU32(NextPow2(patched))

\* if (patchedRomSize > baseRomSize) {
\*     *romSize = nextPow2(patchedRomSize);
\*     if (*romSize > MAX_ROM_SIZE) { ...; free(buff.buffer); return RES_INVALID_PATCH; }
\*     memset ...; memset ...; }
\* uintmax_t offset = 0;
UpsGrow ==
    /\ pc = "ups_grow"
    /\ upsOffset' = WZero
    /\ \E newSize \in {UpsNewSize(patchedRomSize)} :
       \E filled \in {UpsGrowFill(rom, baseRomSize, patchedRomSize, newSize)} :
       IF UpsMustGrow(baseRomSize, patchedRomSize)
       THEN /\ romSize' = newSize
            /\ IF WLt(W(MAX_ROM_SIZE), newSize)
               THEN /\ frees' = freeBuffer(frees)
                    /\ res' = RES_INVALID_PATCH
                    /\ pc' = "ups_return"
                    /\ rom' = rom
                    /\ hist' = [hist EXCEPT !.upsRes = RES_INVALID_PATCH]
               ELSE /\ frees' = frees
                    /\ res' = res
                    /\ pc' = "ups_while"
                    /\ rom' = filled
                    /\ hist' = [hist EXCEPT
                          !.grown = TRUE,
                          !.outside = @
                              \/ MemsetOutside(baseRomSize,
                                    WU32(WSub(newSize, baseRomSize)))
                              \/ MemsetOutside(baseRomSize,
                                    WU32(WSub(patchedRomSize, baseRomSize)))]
       ELSE /\ pc' = "ups_while"
            /\ UNCHANGED <<romSize, frees, res, rom, hist>>
    /\ UNCHANGED <<env, buff, allocs, i, ipsLocals, magic, baseRomSize,
                   patchedRomSize, vuintLocals>>

\* while (fTell(patchHandle) < (patchFileSize-12) && res==RES_OK)
\* patchFileSize is a uintmax_t, so the subtraction wraps below 12
UpsWhileCond(pos, patchFileSize, r) ==
    WLt(W(pos), WSub(W(patchFileSize), W(12))) /\ r = RES_OK

\* the head of the record loop: offset += read_vuint(...) goes on in
\* read_vuint, the end of the loop goes to freeBuffer
UpsWhile ==
    /\ pc = "ups_while"
    /\ IF UpsWhileCond(fpos, Len(file), res)
       THEN /\ pc' = "read_vuint"
            /\ vret' = "offset"
            /\ result' = WZero
            /\ shift' = 0
            /\ build' = build
            /\ hist' = [hist EXCEPT !.nrec = @ + 1, !.recAt = LogicalPos]
       ELSE /\ pc' = "ups_free"
            /\ UNCHANGED <<vuintLocals, hist>>
    /\ UNCHANGED <<env, buff, heap, rom, romSize, res, i, ipsLocals, upsLocals>>

\* offset += read_vuint(patchHandle, &res, &buff);  if (res != RES_OK) break;
UpsGotOffset ==
    /\ pc = "vuint_return"
    /\ vret = "offset"
    /\ upsOffset' = WAdd(upsOffset, result)
    /\ pc' = IF res # RES_OK THEN "ups_free" ELSE "ups_xor"
    /\ UNCHANGED <<env, buff, heap, rom, romSize, res, i, ipsLocals, magic,
                   baseRomSize, patchedRomSize, vuintLocals, hist>>

\* romBytes[offset] ^= readByte, at an index inside the ROM region
UpsXorAt(image, at, readByte) ==
    RomStore(image, at, at + 1, XorByte(RomAt(image, at), readByte))

\* one iteration of  while (offset<*romSize) {
\*     readByte = readBuffer(...);  if (res != RES_OK) break;
\*     if (readByte == 0x00) { offset++; break; }
\*     romBytes[offset] ^= readByte;  offset++; }
UpsXor ==
    /\ pc = "ups_xor"
    /\ IF ~WLt(upsOffset, romSize)
       THEN /\ pc' = "ups_while"
            /\ UNCHANGED <<fpos, buff, res, rom, upsOffset, hist>>
       ELSE \E fail \in ReadFaults(buff) :
            LET rd == readBuffer(buff, file, fpos, res, fail)
            IN  /\ buff' = rd.buff
                /\ fpos' = rd.fpos
                /\ res' = rd.res
                /\ IF rd.res # RES_OK
                   THEN /\ pc' = "ups_while"
                        /\ UNCHANGED <<rom, upsOffset>>
                        /\ hist' = NoteFault(hist, fail)
                   ELSE IF rd.byte = 0
                   THEN /\ pc' = "ups_while"
                        /\ upsOffset' = WAdd(upsOffset, W(1))
                        /\ rom' = rom
                        /\ hist' = hist
                   ELSE /\ pc' = "ups_xor"
                        /\ upsOffset' = WAdd(upsOffset, W(1))
                        /\ IF WLt(upsOffset, W(MAX_ROM_SIZE))
                           THEN /\ rom' = UpsXorAt(rom, WInt(upsOffset), rd.byte)
                                /\ hist' = hist
                           ELSE /\ rom' = rom
                                /\ hist' = [hist EXCEPT !.outside = TRUE]
    /\ UNCHANGED <<file, heap, romSize, i, ipsLocals, magic, baseRomSize,
                   patchedRomSize, vuintLocals>>

\* freeBuffer(&buff); return res;
UpsFree ==
    /\ pc = "ups_free"
    /\ frees' = freeBuffer(frees)
    /\ pc' = "ups_return"
    /\ hist' = [hist EXCEPT !.upsRes = res]
    /\ UNCHANGED <<env, buff, allocs, rom, romSize, res, i, ipsLocals, upsLocals,
                   vuintLocals>>

\* if ((res = patchUPS(patchFile, romSize)), res == RES_OK) return res;
\* else if (res != RES_INVALID_PATCH) { ... while(1) ... return res; }
\* return res;
ApplyPatchAfterUps ==
    /\ pc = "ups_return"
    /\ pc' = AfterEngine(res, "done")
    /\ hist' = [hist EXCEPT !.waited = @ \/ AfterEngine(res, "done") = "wait"]
    /\ UNCHANGED <<env, buff, heap, rom, romSize, res, i, ipsLocals, upsLocals,
                   vuintLocals>>

Next ==
    \/ ApplyPatchSeek
    \/ IpsCreate
    \/ IpsLoad
    \/ IpsMagic
    \/ IpsCheck
    \/ IpsReadOffset
    \/ IpsReadLength
    \/ IpsReadRle
    \/ IpsHunkByte
    \/ IpsFree
    \/ ApplyPatchAfterIps
    \/ WaitKeyPressed
    \/ WaitPowerOff
    \/ UpsCreate
    \/ UpsLoad
    \/ UpsMagic
    \/ ReadVuintStep
    \/ UpsGotBaseRomSize
    \/ UpsGotPatchedRomSize
    \/ UpsGrow
    \/ UpsWhile
    \/ UpsGotOffset
    \/ UpsXor
    \/ UpsFree
    \/ ApplyPatchAfterUps

Spec == Init /\ [][Next]_vars

\* the steps of the running code: everything but the two ways out of the
\* key-wait loop, which need the user
ProgramStep ==
    \/ ApplyPatchSeek
    \/ IpsCreate
    \/ IpsLoad
    \/ IpsMagic
    \/ IpsCheck
    \/ IpsReadOffset
    \/ IpsReadLength
    \/ IpsReadRle
    \/ IpsHunkByte
    \/ IpsFree
    \/ ApplyPatchAfterIps
    \/ UpsCreate
    \/ UpsLoad
    \/ UpsMagic
    \/ ReadVuintStep
    \/ UpsGotBaseRomSize
    \/ UpsGotPatchedRomSize
    \/ UpsGrow
    \/ UpsWhile
    \/ UpsGotOffset
    \/ UpsXor
    \/ UpsFree
    \/ ApplyPatchAfterUps

\* the code keeps running: a step that can be taken is taken
FairSpec == Spec /\ WF_vars(ProgramStep)

(***************************************************************************)
(* read_vuint on its own: a value is encoded, the octets (and some bytes    *)
(* after them) are the file, and read_vuint decodes from a loaded buffer.   *)
(***************************************************************************)
\* bytes that follow the encoded octets in the file
MaxTail == 1

VarintValues ==
    {W(n) : n \in {0, 1, 2, 126, 127, 128, 129, 255, 256, 16383, 16384, 16511,
                   16512, 2097151, 2097152, 2113663, 2113664, 268435455,
                   268435456, 270549119, 270549120, 1073741824, 2147483647}}
    \cup {<<0, 32768, 0, 0>>, <<1, 32768, 0, 0>>, <<0, 49152, 0, 0>>,
          <<65535, 65535, 0, 0>>}

VarintInit ==
    /\ \E value \in VarintValues, n \in 0..MaxTail :
        /\ file = EncodeVuint(value) \o Run(0, n)
        /\ hist = [InitHist(W(4)) EXCEPT !.input = value]
    /\ fpos = 0
    /\ rom = InitRom
    /\ romSize = W(4)
    /\ pc = "vuint_load"
    /\ InitLocals

\* the caller's createBuffer and loadBuffer, both succeeding
VarintLoad ==
    /\ pc = "vuint_load"
    /\ LET ld == loadBuffer(createBuffer(MAX_BUFFER_SIZE), file, fpos, FALSE)
       IN  /\ buff' = ld.buff
           /\ fpos' = ld.fpos
           /\ res' = ld.res
    /\ allocs' = 1
    /\ pc' = "read_vuint"
    /\ result' = WZero
    /\ shift' = 0
    /\ UNCHANGED <<file, frees, rom, romSize, i, ipsLocals, upsLocals, vret,
                   build, hist>>

NextVarint == VarintLoad \/ ReadVuintStep

SpecVarint == VarintInit /\ [][NextVarint]_vars

(***************************************************************************)
(* The buffered reader on its own: createBuffer with some capacity,         *)
(* loadBuffer at some file position, then readBuffer calls, some of them    *)
(* after the file is exhausted.                                             *)
(***************************************************************************)
\* capacities 1..MaxCapacity
MaxCapacity == 3

\* file lengths 0..MaxReaderLen
MaxReaderLen == 4

\* readBuffer calls made after the call that first fails
MaxExtraCalls == 2

ReaderBytes == {0, 1, 255}

ReaderFiles == SeqsUpTo(ReaderBytes, MaxReaderLen)

ReaderPcs == {"reader_create", "reader_load", "reader_read", "reader_done"}

ReaderInit ==
    /\ file \in ReaderFiles
    /\ fpos \in 0..Len(file)
    /\ hist = [InitHist(W(4)) EXCEPT !.start = fpos]
    /\ rom = InitRom
    /\ romSize = W(4)
    /\ pc = "reader_create"
    /\ InitLocals

\* Buffer buff = createBuffer(capacity); if (buff.buffer == NULL) return ...
ReaderCreate ==
    /\ pc = "reader_create"
    /\ \E capacity \in 1..MaxCapacity, fail \in BOOLEAN :
        /\ buff' = createBuffer(capacity)
        /\ allocs' = IF fail THEN 0 ELSE 1
        /\ pc' = IF fail THEN "reader_done" ELSE "reader_load"
        /\ res' = IF fail THEN RES_OUT_OF_MEM ELSE res
        /\ hist' = NoteFault(hist, fail)
    /\ UNCHANGED <<env, frees, rom, romSize, i, ipsLocals, upsLocals,
                   vuintLocals>>

\* res = loadBuffer(fileHandle, &buff);
ReaderLoad ==
    /\ pc = "reader_load"
    /\ \E fail \in BOOLEAN :
        LET ld == loadBuffer(buff, file, fpos, fail)
        IN  /\ buff' = ld.buff
            /\ fpos' = ld.fpos
            /\ res' = ld.res
            /\ pc' = IF ld.res = RES_OK THEN "reader_read" ELSE "reader_done"
            /\ hist' = NoteFault(hist, fail)
    /\ UNCHANGED <<file, heap, rom, romSize, i, ipsLocals, upsLocals,
                   vuintLocals>>

\* byte = readBuffer(fileHandle, &buff, &res); the caller's res is what an
\* earlier call left or RES_OK
ReaderRead ==
    /\ pc = "reader_read"
    /\ i < (Len(file) - hist.start) + 1 + MaxExtraCalls
    /\ \E fail \in ReadFaults(buff), r0 \in {res, RES_OK} :
        LET rd == readBuffer(buff, file, fpos, r0, fail)
        IN  /\ buff' = rd.buff
            /\ fpos' = rd.fpos
            /\ res' = rd.res
            /\ hist' = [NoteFault(hist, fail) EXCEPT
                  !.byte = rd.byte,
                  !.pre = [bufferSize   |-> buff.bufferSize,
                           bufferOffset |-> buff.bufferOffset,
                           fpos         |-> fpos]]
    /\ i' = i + 1
    /\ pc' = "reader_read"
    /\ UNCHANGED <<file, heap, rom, romSize, ipsLocals, upsLocals, vuintLocals>>

NextReader == ReaderCreate \/ ReaderLoad \/ ReaderRead

SpecReader == ReaderInit /\ [][NextReader]_vars

(***************************************************************************)
(* Reference semantics of the wire formats, read off the format             *)
(* descriptions and independent of the engines: what a patch file means.    *)
(* File indices are 1-based; the byte at file offset p is f[p + 1].         *)
(***************************************************************************)
HasPrefix(f, m) == Len(f) >= Len(m) /\ SubSeq(f, 1, Len(m)) = m

\* a varint of at most four octets starting at index p: [ok, v, n] with n the
\* index after it
RECURSIVE RefVuint(_, _, _, _)
RefVuint(f, p, sh, acc) ==
    IF p > Len(f) \/ sh > 21 THEN [ok |-> FALSE, v |-> 0, n |-> p]
    ELSE IF f[p] >= 128
    THEN [ok |-> TRUE, v |-> acc + (f[p] - 128) * Pow2(sh), n |-> p + 1]
    ELSE RefVuint(f, p + 1, sh + 7, acc + (f[p] + 128) * Pow2(sh))

\* the header of a UPS file: [ok, base, patched, n]
RefUpsHeader(f) ==
    LET b == RefVuint(f, 5, 0, 0)
        q == RefVuint(f, b.n, 0, 0)
    IN  [ok      |-> HasPrefix(f, MagicUPS) /\ b.ok /\ q.ok,
         base    |-> b.v,
         patched |-> q.v,
         n       |-> q.n]

\* the logical size a UPS file gives a ROM of size sz (an integer)
RefUpsSize(f, sz) ==
    LET h == RefUpsHeader(f)
    IN  IF h.patched > h.base THEN WInt(NextPow2(W(h.patched))) ELSE sz

\* the ROM after the header of a UPS file: grown and filled, or left alone
RefUpsGrown(f, image) ==
    LET h == RefUpsHeader(f)
    IN  IF h.patched > h.base
        THEN RomStore(RomStore(image, h.base, RefUpsSize(f, 0), 255),
                      h.base, h.patched, 0)
        ELSE image

\* the bytes f[lo..hi] XORed into the ROM at indices at, at + 1, ...
RECURSIVE RefXorRange(_, _, _, _, _)
RefXorRange(f, lo, hi, at, image) ==
    IF lo > hi THEN image
    ELSE IF lo = hi
    THEN RomStore(image, at, at + 1, XorByte(RomAt(image, at), f[lo]))
    ELSE LET mid  == (lo + hi) \div 2
             left == RefXorRange(f, lo, mid, at, image)
         IN  IF Len(left) = 0 THEN left
             ELSE RefXorRange(f, mid + 1, hi, at + (mid + 1 - lo), left)

\* the XOR run of one record from index p at ROM index c: [ok, image, n, c];
\* the run ends at the first 0x00, and every byte of it, the terminator
\* included, has its ROM index below sz
RefUpsRun(f, p, last, c, image, sz) ==
    IF \A t \in p..last : f[t] # 0
    THEN [ok |-> FALSE, image |-> image, n |-> p, c |-> c]
    ELSE LET t == CHOOSE t \in p..last : f[t] = 0 /\ \A k \in p..(t - 1) : f[k] # 0
         IN  IF c + (t - p) >= sz
             THEN [ok |-> FALSE, image |-> image, n |-> p, c |-> c]
             ELSE [ok    |-> TRUE,
                   image |-> RefXorRange(f, p, t - 1, c, image),
                   n     |-> t + 1,
                   c     |-> c + (t - p) + 1]

\* the records from index p up to index last, applied in order: [ok, image]
RECURSIVE RefUpsRecords(_, _, _, _, _, _)
RefUpsRecords(f, p, last, c, image, sz) ==
    IF p > last THEN [ok |-> p = last + 1, image |-> image]
    ELSE LET d == RefVuint(f, p, 0, 0)
             r == RefUpsRun(f, d.n, last, c + d.v, image, sz)
         IN  IF d.ok /\ d.n <= last /\ r.ok
             THEN RefUpsRecords(f, r.n, last, r.c, r.image, sz)
             ELSE [ok |-> FALSE, image |-> image]

\* a UPS file applied to a ROM of logical size sz within the capacity:
\* [ok, image, size]; ok says the file is well formed for that ROM
RefUps(f, image, sz) ==
    LET h == RefUpsHeader(f)
        newSize == RefUpsSize(f, sz)
        rs == RefUpsRecords(f, h.n, Len(f) - 12, 0, RefUpsGrown(f, image), newSize)
    IN  [ok    |-> /\ h.ok
                   /\ Len(f) - 12 >= h.n - 1
                   /\ newSize <= MAX_ROM_SIZE
                   /\ rs.ok,
         image |-> rs.image,
         size  |-> newSize]

\* a literal hunk's bytes f[p..p+len-1] stored from ROM index at
RefIpsLiteral(f, p, len, at, image) ==
    LET F[k \in 0..len] ==
            IF k = 0 THEN image
            ELSE RomStore(F[k - 1], at + k - 1, at + k, f[p + k - 1])
    IN  F[len]

\* the hunks of an IPS file from index p: [ok, image]; ok says the file is
\* hunks followed by "EOF" and nothing else
RECURSIVE RefIpsHunks(_, _, _)
RefIpsHunks(f, p, image) ==
    IF p + 2 > Len(f) THEN [ok |-> FALSE, image |-> image]
    ELSE IF SubSeq(f, p, p + 2) = MagicEOF
    THEN [ok |-> p + 2 = Len(f), image |-> image]
    ELSE IF p + 4 > Len(f) THEN [ok |-> FALSE, image |-> image]
    ELSE LET at  == f[p] * 65536 + f[p + 1] * 256 + f[p + 2]
             len == f[p + 3] * 256 + f[p + 4]
         IN  IF len = 0
             THEN IF p + 7 > Len(f) THEN [ok |-> FALSE, image |-> image]
                  ELSE RefIpsHunks(f, p + 8,
                          RomStore(image, at, at + f[p + 5] * 256 + f[p + 6], f[p + 7]))
             ELSE IF p + 4 + len > Len(f) THEN [ok |-> FALSE, image |-> image]
                  ELSE RefIpsHunks(f, p + 5 + len,
                          RefIpsLiteral(f, p + 5, len, at, image))

RefIps(f, image) ==
    IF HasPrefix(f, MagicIPS) THEN RefIpsHunks(f, 6, image)
    ELSE [ok |-> FALSE, image |-> image]

\* the ROM an IPS file describes from index p when it may end early: whole
\* hunks are applied, and of a literal hunk cut short the data bytes that are
\* in the file
RECURSIVE RefIpsPartial(_, _, _)
RefIpsPartial(f, p, image) ==
    IF p + 2 > Len(f) THEN image
    ELSE IF SubSeq(f, p, p + 2) = MagicEOF THEN image
    ELSE IF p + 4 > Len(f) THEN image
    ELSE LET at  == f[p] * 65536 + f[p + 1] * 256 + f[p + 2]
             len == f[p + 3] * 256 + f[p + 4]
         IN  IF len = 0
             THEN IF p + 7 > Len(f) THEN image
                  ELSE RefIpsPartial(f, p + 8,
                          RomStore(image, at, at + f[p + 5] * 256 + f[p + 6], f[p + 7]))
             ELSE IF p + 4 + len > Len(f)
                  THEN RefIpsLiteral(f, p + 5, Len(f) - (p + 4), at, image)
                  ELSE RefIpsPartial(f, p + 5 + len,
                          RefIpsLiteral(f, p + 5, len, at, image))

\* whether an IPS file has the bytes "EOF" in the offset position of a hunk
\* boundary, scanning whole hunks from index p: [ok, n], n the number of
\* file bytes up to and including that terminator
RECURSIVE RefIpsTerminator(_, _)
RefIpsTerminator(f, p) ==
    IF p + 2 > Len(f) THEN [ok |-> FALSE, n |-> 0]
    ELSE IF SubSeq(f, p, p + 2) = <<69, 79, 70>> THEN [ok |-> TRUE, n |-> p + 2]
    ELSE IF p + 4 > Len(f) THEN [ok |-> FALSE, n |-> 0]
    ELSE LET len == f[p + 3] * 256 + f[p + 4]
         IN  IF len = 0
             THEN IF p + 7 > Len(f) THEN [ok |-> FALSE, n |-> 0]
                  ELSE RefIpsTerminator(f, p + 8)
             ELSE IF p + 4 + len > Len(f) THEN [ok |-> FALSE, n |-> 0]
                  ELSE RefIpsTerminator(f, p + 5 + len)

(***************************************************************************)
(* Properties.                                                              *)
(***************************************************************************)
IpsPcs == {"ips_create", "ips_load", "ips_magic", "ips_check", "ips_offset",
           "ips_length", "ips_rle", "ips_hunk", "ips_free"}

UpsPcs == {"ups_create", "ups_load", "ups_magic", "read_vuint", "vuint_return",
           "ups_grow", "ups_while", "ups_xor", "ups_free", "ups_return"}

Size0 == WInt(hist.romSize0)

\* C1: a well-formed UPS file (magic, two varints, records that end where the
\* 12 reserved bytes begin, every cursor inside the ROM), read without I/O
\* errors, makes patchUPS return RES_OK with every record applied in order:
\* the ROM on return is the ROM the records describe.
C1_UpsAppliesEveryRecord ==
    (pc = "ups_return" /\ ~hist.fault /\ RefUps(file, hist.rom0, Size0).ok)
        => /\ res = RES_OK
           /\ rom = RefUps(file, hist.rom0, Size0).image

\* C2: a valid IPS file ("PATCH", hunks, "EOF"), read without I/O errors,
\* makes patchIPS return RES_OK and leaves the ROM byte for byte as the
\* reference applier does: hunks applied in file order, nothing else changed.
C2_IpsMatchesReference ==
    (pc = "ips_return" /\ ~hist.fault /\ RefIps(file, hist.rom0).ok)
        => /\ res = RES_OK
           /\ rom = RefIps(file, hist.rom0).image
           /\ romSize = hist.romSize0

\* C2 witness: the literal hunk "TEST" at 0 followed by the RLE hunk (1, 3,
\* 0xEE) has been applied
C2_Witness ==
    /\ pc = "ips_return"
    /\ ~hist.fault
    /\ file = MagicIPS \o <<0, 0, 0, 0, 4, 84, 69, 83, 84>>
                       \o <<0, 0, 1, 0, 0, 0, 3, 238>> \o MagicEOF
    /\ res = RES_OK
    /\ rom = << <<0, 84>>, <<1, 238>>, <<4, 170>> >>

\* C3: for a file of any length that starts with neither magic, applyPatch
\* ends with the UPS engine's RES_INVALID_PATCH after IPS gave the same, and
\* the ROM and romSize are as on entry.
C3_NeitherMagicIsInvalidPatch ==
    (/\ pc \in {"wait", "done", "power_off"}
     /\ ~hist.fault
     /\ ~HasPrefix(file, MagicIPS)
     /\ ~HasPrefix(file, MagicUPS))
        => /\ res = RES_INVALID_PATCH
           /\ hist.ipsRes = RES_INVALID_PATCH
           /\ hist.upsRes = RES_INVALID_PATCH
           /\ rom = hist.rom0
           /\ romSize = hist.romSize0

\* C4: a UPS file that declares patchedRomSize > baseRomSize with
\* nextPow2(patchedRomSize) > MAX_ROM_SIZE makes patchUPS return an outcome
\* that is neither RES_OK nor RES_INVALID_PATCH (the magic mismatch), with
\* every ROM byte as on entry.
C4_OverCapacityIsDistinctOutcome ==
    LET h == RefUpsHeader(file)
    IN  (/\ pc = "ups_return"
         /\ ~hist.fault
         /\ h.ok
         /\ h.patched > h.base
         /\ WLt(W(MAX_ROM_SIZE), NextPow2(W(h.patched))))
            => /\ res \notin {RES_OK, RES_INVALID_PATCH}
               /\ rom = hist.rom0

\* C5: for a valid UPS file with patchedRomSize > baseRomSize inside the
\* capacity: when patchUPS returns RES_OK, romSize = nextPow2(patchedRomSize),
\* a power of two <= MAX_ROM_SIZE; and before the first record is decoded the
\* bytes of [baseRomSize, patchedRomSize) are 0x00 and those of
\* [patchedRomSize, romSize) are 0xFF.
C5_UpsGrowsToNextPow2 ==
    LET h == RefUpsHeader(file)
    IN  (/\ pc \in {"ups_return", "ups_while"}
         /\ ~hist.fault
         /\ RefUps(file, hist.rom0, Size0).ok
         /\ h.patched > h.base)
            => /\ (pc = "ups_return" /\ res = RES_OK)
                    => /\ romSize = NextPow2(W(h.patched))
                       /\ WLe(romSize, W(MAX_ROM_SIZE))
                       /\ \E k \in 0..25 : romSize = WPow2(k)
               /\ (pc = "ups_while" /\ hist.nrec = 0)
                    => /\ RomRangeIs(rom, h.base, h.patched, 0)
                       /\ RomRangeIs(rom, h.patched, WInt(romSize), 255)
                       /\ romSize = NextPow2(W(h.patched))

\* C5 witness: the file with sizes (4, 300) and no record has returned
\* RES_OK with the ROM grown to 512
C5_Witness ==
    /\ pc = "ups_return"
    /\ ~hist.fault
    /\ file = MagicUPS \o EncodeVuint(W(4)) \o EncodeVuint(W(300)) \o UpsTrailer
    /\ res = RES_OK
    /\ romSize = W(512)
    /\ RomRangeIs(rom, 4, 300, 0)
    /\ RomRangeIs(rom, 300, 512, 255)

\* C6: for a valid UPS file with patchedRomSize <= baseRomSize, romSize on
\* return is romSize on entry, and no grow-fill has been written when the
\* first record is about to be decoded.
C6_UpsNoGrowKeepsSize ==
    LET h == RefUpsHeader(file)
    IN  (/\ pc \in {"ups_return", "ups_while"}
         /\ ~hist.fault
         /\ RefUps(file, hist.rom0, Size0).ok
         /\ h.patched <= h.base)
            => /\ romSize = hist.romSize0
               /\ ~hist.grown
               /\ (pc = "ups_while" /\ hist.nrec = 0) => rom = hist.rom0

\* C6 witness: a file with sizes (4, 3) has returned RES_OK on a ROM of
\* 1024 bytes
C6_Witness ==
    /\ pc = "ups_return"
    /\ ~hist.fault
    /\ RefUps(file, hist.rom0, Size0).ok
    /\ RefUpsHeader(file).patched = 3
    /\ RefUpsHeader(file).base = 4
    /\ res = RES_OK
    /\ romSize = W(1024)

\* C7: romSize on return from patchUPS / applyPatch is never below romSize on
\* entry, whatever the sizes the header declares.
C7_RomSizeNeverShrinks == WLe(hist.romSize0, romSize)

\* C8: a file whose first five bytes are not "PATCH", with the initial fill
\* succeeding, makes patchIPS return RES_INVALID_PATCH with every ROM byte as
\* on entry.
C8_IpsRejectsOtherMagic ==
    (pc = "ips_return" /\ hist.ipsFill /\ ~HasPrefix(file, MagicIPS))
        => /\ res = RES_INVALID_PATCH
           /\ rom = hist.rom0

\* C8 witness: patchIPS has returned on a four-byte file, shorter than the
\* magic
C8_Witness ==
    /\ pc = "ips_return"
    /\ hist.ipsFill
    /\ Len(file) = 4
    /\ res = RES_INVALID_PATCH

\* C10: patchIPS starts at file offset 0 before anything else has run;
\* patchUPS runs only after patchIPS returned RES_INVALID_PATCH and the file
\* was rewound, and starts at offset 0; once patchIPS has returned RES_OK or
\* an error other than RES_INVALID_PATCH, applyPatch holds that result and
\* patchUPS never runs.
C10_DispatchOrder ==
    /\ pc = "ips_create"
            => fpos = 0 /\ hist.ipsRes = "none" /\ hist.upsRes = "none"
    /\ pc \in IpsPcs => hist.upsRes = "none" /\ ~hist.upsSeek
    /\ pc \in UpsPcs => hist.ipsRes = RES_INVALID_PATCH /\ hist.upsSeek
    /\ pc = "ups_create" => fpos = 0
    /\ hist.ipsRes \notin {"none", RES_INVALID_PATCH}
            => /\ pc \in {"ips_return", "wait", "done", "power_off"}
               /\ res = hist.ipsRes
               /\ hist.upsRes = "none"
               /\ ~hist.upsSeek
               /\ hist.nrec = 0
               /\ romSize = hist.romSize0

\* C10 witness: applyPatch has returned an IPS error without running patchUPS
C10_Witness ==
    /\ pc = "done"
    /\ hist.ipsRes = RES_OUT_OF_RANGE
    /\ res = RES_OUT_OF_RANGE
    /\ hist.upsRes = "none"

\* C9: encoding a value with the UPS scheme and decoding the octets with
\* read_vuint gives the value back, with RES_OK, having consumed exactly the
\* encoded octets.
C9_VarintRoundTrip ==
    (pc = "vuint_return" /\ vret = "none" /\ ~hist.fault)
        => /\ result = hist.input
           /\ res = RES_OK
           /\ LogicalPos = Len(EncodeVuint(hist.input))

\* the round trip of C9 for the values below 2^31, where no shift of
\* read_vuint overflows its int
VarintRoundTripBelow2p31 ==
    (pc = "vuint_return" /\ vret = "none" /\ ~hist.fault /\ WFits(hist.input))
        => /\ result = hist.input
           /\ res = RES_OK
           /\ LogicalPos = Len(EncodeVuint(hist.input))

\* C11: patchUPS never begins decoding a record (never starts reading a
\* deltaOffset varint) at a logical file position at or beyond
\* fileLength - 12, for a file of any length.
C11_TrailerNeverDecoded == hist.nrec > 0 => hist.recAt < Len(file) - 12

\* the statement of C11 for the files that hold the 12 reserved bytes
TrailerNeverDecodedFrom12 ==
    (hist.nrec > 0 /\ Len(file) >= 12) => hist.recAt < Len(file) - 12

\* C12: a readBuffer call on a reader whose window is empty
\* (bufferSize = 0) sets the result to RES_OUT_OF_RANGE, returns 0, and
\* leaves bufferSize, bufferOffset and the file position as they were, so
\* every later call fails the same way.
C12_EmptyWindowFails ==
    (pc = "reader_read" /\ i >= 1 /\ hist.pre.bufferSize = 0)
        => /\ res = RES_OUT_OF_RANGE
           /\ hist.byte = 0
           /\ buff.bufferSize = 0
           /\ buff.bufferOffset = hist.pre.bufferOffset
           /\ fpos = hist.pre.fpos

\* C12 witness: on a file with a non-zero last byte, a second call in a row
\* has failed on the empty window
C12_Witness ==
    /\ pc = "reader_read"
    /\ ~hist.fault
    /\ i = (Len(file) - hist.start) + 2
    /\ Len(file) > hist.start
    /\ file[Len(file)] = 255
    /\ hist.pre.bufferSize = 0
    /\ res = RES_OUT_OF_RANGE

\* C14: after loadBuffer at position p of a file of length n, every fRead
\* succeeding, for every capacity >= 1 the k-th readBuffer call returns file
\* byte p+k-1 for 1 <= k <= n-p, and the calls after those fail with
\* RES_OUT_OF_RANGE.
C14_ReaderMatchesFile ==
    (pc = "reader_read" /\ i >= 1 /\ ~hist.fault)
        => IF i <= Len(file) - hist.start
           THEN hist.byte = file[hist.start + i] /\ res = RES_OK
           ELSE hist.byte = 0 /\ res = RES_OUT_OF_RANGE

\* C14 witness: with capacity 1 the fourth call has returned the fourth byte
\* of a file of four different neighbours, after three refills
C14_Witness ==
    /\ pc = "reader_read"
    /\ ~hist.fault
    /\ buff.maxBufferSize = 1
    /\ file = <<1, 0, 255, 1>>
    /\ hist.start = 0
    /\ i = 4
    /\ hist.byte = 1
    /\ res = RES_OK

\* C15: in every state reached by createBuffer, loadBuffer and readBuffer
\* calls, 0 <= bufferOffset <= bufferSize <= maxBufferSize, and a readBuffer
\* call that returned a byte read it at an index below bufferSize.
C15_ReaderBounds ==
    pc \in ReaderPcs
        => /\ 0 <= buff.bufferOffset
           /\ buff.bufferOffset <= buff.bufferSize
           /\ buff.bufferSize <= buff.maxBufferSize
           /\ (i >= 1 /\ hist.pre.bufferSize # 0)
                => /\ 0 <= hist.pre.bufferOffset
                   /\ hist.pre.bufferOffset < hist.pre.bufferSize
                   /\ hist.pre.bufferSize <= buff.maxBufferSize

\* C15 witness: a read in the middle of a window of capacity 3
C15_Witness ==
    /\ pc = "reader_read"
    /\ buff.maxBufferSize = 3
    /\ buff.bufferSize = 3
    /\ buff.bufferOffset = 2
    /\ hist.pre.bufferOffset = 1
    /\ i = 2

\* the bounds of C15 for the Buffer of patchIPS and patchUPS
EngineBufferBounds ==
    /\ 0 <= buff.bufferOffset
    /\ buff.bufferOffset <= buff.bufferSize
    /\ buff.bufferSize <= buff.maxBufferSize

\* C13: applyPatch never invokes or waits on a UI, input-polling or
\* power-management facility: for every engine outcome it never enters the
\* key-wait loop and never powers the console off.
C13_NoInputWait == ~hist.waited /\ pc \notin {"wait", "power_off"}

\* C16: when a read fails while patchIPS is processing a hunk (the file ends
\* inside it), patchIPS returns a result other than RES_OK and the ROM
\* differs from the ROM on entry only by the patch bytes read before the
\* failure: the byte a failed read returns is never stored.
C16_SentinelNeverStored ==
    (/\ pc = "ips_return"
     /\ ~hist.fault
     /\ HasPrefix(file, MagicIPS)
     /\ ~RefIps(file, hist.rom0).ok)
        => /\ res # RES_OK
           /\ rom = RefIpsPartial(file, 6, hist.rom0)

\* the statement of C16 for the files that do not end inside the data of a
\* literal hunk
IpsPartialOutsideLiteral ==
    (/\ pc = "ips_return"
     /\ ~hist.fault
     /\ HasPrefix(file, MagicIPS)
     /\ length = 0)
        => rom = RefIpsPartial(file, 6, hist.rom0)

\* C17: romSize <= MAX_ROM_SIZE is preserved: with romSize <= MAX_ROM_SIZE
\* on entry, it holds when patchUPS / applyPatch returns, whatever the
\* outcome.
C17_RomSizeWithinCapacity ==
    (/\ pc \in {"ups_return", "wait", "done", "power_off"}
     /\ WLe(hist.romSize0, W(MAX_ROM_SIZE)))
        => WLe(romSize, W(MAX_ROM_SIZE))

\* the statement of C17 for the calls that return RES_OK
RomSizeWithinCapacityWhenApplied ==
    (/\ pc \in {"ups_return", "wait", "done", "power_off"}
     /\ res = RES_OK
     /\ WLe(hist.romSize0, W(MAX_ROM_SIZE)))
        => WLe(romSize, W(MAX_ROM_SIZE))

\* C18: each engine attempt releases the buffer it allocated exactly once on
\* every exit path: when patchIPS or patchUPS has returned, its buffer has
\* been freed once, and nothing has been freed when the allocation failed.
C18_BufferFreedOnce ==
    /\ allocs <= 1
    /\ frees <= allocs
    /\ pc \in {"ips_return", "ups_return"}
            => IF res = RES_OUT_OF_MEM
               THEN allocs = 0 /\ frees = 0
               ELSE allocs = 1 /\ frees = 1

\* C18 witness: patchUPS has returned from its capacity rejection with its
\* buffer freed
C18_Witness ==
    /\ pc = "ups_return"
    /\ ~hist.fault
    /\ res = RES_INVALID_PATCH
    /\ HasPrefix(file, MagicUPS)
    /\ WLt(W(MAX_ROM_SIZE), romSize)
    /\ allocs = 1
    /\ frees = 1

\* the head of the IPS hunk loop, about to read the first offset byte
AtIpsLoopHead == pc = "ips_offset" /\ i = 0

\* a step that comes back to the head of the IPS hunk loop or of the UPS
\* record loop has consumed at least one patch byte since the iteration
\* began, or the loop is about to end
IterationConsumes ==
    /\ (AtIpsLoopHead' /\ pc # "ips_check")
            => (LogicalPos' > hist'.hunkAt \/ res' # RES_OK)
    /\ (pc' = "ups_while" /\ pc = "ups_xor")
            => (LogicalPos' > hist'.recAt \/ res' # RES_OK)

\* C19: for every finite patch file, read_vuint, patchIPS and patchUPS each
\* terminate, and every iteration of the IPS hunk loop and of the UPS record
\* loop consumes at least one patch byte or ends the loop.  applyPatch runs
\* the engines one after the other, and patchUPS runs read_vuint, so all
\* three have returned once control is past the engines: in the key-wait
\* loop or at the return of applyPatch.
C19_EnginesTerminate ==
    /\ <>(pc \in {"wait", "done", "power_off"})
    /\ [][IterationConsumes]_vars

\* C19 witness: patchUPS has returned from a file that ends inside its
\* second record
C19_Witness ==
    /\ pc = "ups_return"
    /\ ~hist.fault
    /\ hist.nrec = 2
    /\ res = RES_OUT_OF_RANGE

\* C20: with romSize <= MAX_ROM_SIZE on entry, every byte the engines write
\* lands at a ROM index below MAX_ROM_SIZE: no store of patchIPS, of the
\* grow-fill or of an XOR record lands outside the ROM region, and an XOR
\* record is applied only at a cursor below romSize <= MAX_ROM_SIZE.
C20_WritesInsideRom ==
    WLe(hist.romSize0, W(MAX_ROM_SIZE))
        => /\ ~hist.outside
           /\ pc = "ups_xor" /\ WLt(upsOffset, romSize)
                => WLt(upsOffset, W(MAX_ROM_SIZE))

\* the statement of C20 for the headers whose patched size is at most 2^31
WritesInsideRomUpTo2p31 ==
    (/\ WLe(hist.romSize0, W(MAX_ROM_SIZE))
     /\ WLe(patchedRomSize, <<0, 32768, 0, 0>>))
        => /\ ~hist.outside
           /\ pc = "ups_xor" /\ WLt(upsOffset, romSize)
                => WLt(upsOffset, W(MAX_ROM_SIZE))

\* C21: patchIPS returns RES_OK only if the bytes "EOF" were read in the
\* offset position of a hunk boundary; a file that starts with "PATCH" and
\* ends before that terminator gives a result that is neither RES_OK nor
\* RES_INVALID_PATCH.
C21_IpsOkOnlyAfterEof ==
    pc = "ips_return"
        => /\ res = RES_OK
                => /\ HasPrefix(file, MagicIPS)
                   /\ RefIpsTerminator(file, 6).ok
                   /\ LogicalPos = RefIpsTerminator(file, 6).n
                   /\ miniBuffer = <<69, 79, 70>>
           /\ (HasPrefix(file, MagicIPS) /\ ~RefIpsTerminator(file, 6).ok)
                => res \notin {RES_OK, RES_INVALID_PATCH}

\* C21 witness: patchIPS has returned from a file that ends inside the
\* fields of an RLE hunk
C21_Witness ==
    /\ pc = "ips_return"
    /\ ~hist.fault
    /\ file = MagicIPS \o <<0, 0, 1, 0, 0, 0>>
    /\ res = RES_OUT_OF_RANGE

====
